---- MODULE Spec2Model ----
(***************************************************************************)
(* Model of src/producers/kafka_producer_strickland.py: the orchestrator   *)
(* main(), the configuration getters and the emission loop                 *)
(* generate_messages().  Program positions are values of pc; the broker    *)
(* client (utils.utils_producer, kafka) and the operating system are the   *)
(* environment: their outcomes are chosen with \E in the action that makes *)
(* the call.                                                               *)
(***************************************************************************)
EXTENDS Integers, Sequences, FiniteSets, TLC

VARIABLES
  environ,      \* os.environ: a dict, DOMAIN = the variables that are set
  frame,        \* the bound locals of main(): topic, interval_secs, producer
  pc,           \* program position
  exc,          \* the exception in flight ("none" when there is none)
  idx,          \* position of the for-iterator in string_list (0 = fresh)
  message,      \* the loop variable of generate_messages
  sendCalls,    \* history: every producer.send call, in order
  closeCalls,   \* history: number of producer.close() calls
  topicCalls,   \* history: the outcome of every create_kafka_topic call
  raised,       \* history: every exception raised inside the try block
  clock,        \* logical clock, advanced only by time.sleep
  waits,        \* history: number of time.sleep calls that returned
  log,          \* history: the logger lines, in order
  steps,        \* history: the calls main() has started, in order
  exitStatus    \* exit status of the process once pc = "exited"

vars == << environ, frame, pc, exc, idx, message, sendCalls, closeCalls,
           topicCalls, raised, clock, waits, log, steps, exitStatus >>

-----------------------------------------------------------------------------
(* Bounds and inputs *)

\* The emission loop has no natural end; the model stops it after this many
\* producer.send calls.  It exceeds Len(string_list) so that the wraparound
\* happens.
MaxSends == 105

\* Values of KAFKA_TOPIC the environment or the .env file may hold.
TopicInputs == { "my_topic" }

\* Values of MESSAGE_INTERVAL_SECONDS the environment or the .env file may
\* hold, as sequences of characters.
IntervalInputs ==
  { << "0" >>, << "2" >>, << "+", "1" >>, << " ", "3" >>, << "-", "1" >>,
    << "x" >>, << >>, << "-" >>, << "1", " ", "2" >> }

-----------------------------------------------------------------------------
(* The fixed message list.  The source writes the apostrophe as U+2019; it  *)
(* is written ' here (no string of the list holds an ASCII apostrophe).    *)

string_list ==
  << "This doesn't make any sense",
     "I don't get it",
     "This is so confusing",
     "I give up",
     "I can't do this",
     "Wait, what just happened?",
     "I thought I understood, but I don't",
     "This problem is impossible",
     "Why is this so hard?",
     "Nothing is clicking",
     "I need help",
     "Can you explain this again?",
     "I'm totally lost",
     "This is frustrating",
     "My brain hurts",
     "I'm stuck",
     "I don't know where to start",
     "I keep messing up",
     "I hate this problem",
     "I've tried everything",
     "This is taking forever",
     "Why can't I figure this out?",
     "I'm going in circles",
     "I keep getting the wrong answer",
     "This is the worst",
     "I don't like math",
     "I can't focus",
     "I wish I was done",
     "This is boring",
     "How many problems are left?",
     "Why do we even need to learn this?",
     "This is dragging on",
     "I'd rather be doing anything else",
     "This is so repetitive",
     "I'm tired of this",
     "Can we just stop?",
     "I'm over it",
     "Does this even matter?",
     "This is too much",
     "I can't believe this is homework",
     "I'll never use this in real life",
     "This was tough at first but now I think I've got it",
     "Oh! Now it makes sense",
     "Wait, I get it now",
     "This is actually kind of fun",
     "I solved it!",
     "I can't believe I did it!",
     "That wasn't so bad",
     "Yes! I got it right",
     "I'm on a roll",
     "This is clicking now",
     "This isn't as hard as I thought",
     "Okay, I think I understand",
     "I'm getting the hang of this",
     "I can do this!",
     "I finally figured it out",
     "I feel smart",
     "This problem makes sense now",
     "I knew I could do it",
     "This is easier than it looked",
     "I like this kind of problem",
     "I think I'm improving",
     "I got the same answer twice, so it must be right",
     "Yes, that worked!",
     "This step was the key",
     "It's actually satisfying when it works",
     "This is kind of cool",
     "I'm proud of myself",
     "I actually like this problem",
     "This isn't so scary anymore",
     "Okay, I can explain it to someone else now",
     "I'm in the zone",
     "I'm working faster now",
     "I can focus right now",
     "I like figuring this out",
     "This is keeping me busy",
     "I feel productive",
     "I'm solving these one after another",
     "I just need to keep going",
     "I'm almost finished",
     "I can see the pattern now",
     "I'm starting to enjoy this",
     "I'm determined to finish",
     "This is actually interesting",
     "I just need to double-check my steps",
     "I'm noticing my mistakes and fixing them",
     "This problem is like a puzzle",
     "I just found the trick",
     "This part is easy",
     "I see what the teacher meant now",
     "I'm faster than I was before",
     "I'm focused right now",
     "This feels like progress",
     "I'm learning as I go",
     "This is kind of satisfying",
     "I know what to do next",
     "I just need to be careful",
     "I've got momentum",
     "I can finish strong",
     "This feels good",
     "I actually get it now",
     "I'm proud of my work",
     "I can't wait to check my answer" >>

-----------------------------------------------------------------------------
(* Python primitives used by the getters *)

NoBindings == [n \in {} |-> n]

\* os.getenv(name, default): the value of a set variable, else the default.
getenv(name, default) ==
  IF name \in DOMAIN environ THEN environ[name] ELSE default

DigitChars == { "0", "1", "2", "3", "4", "5", "6", "7", "8", "9" }

DigitValue(c) ==
  CASE c = "0" -> 0 [] c = "1" -> 1 [] c = "2" -> 2 [] c = "3" -> 3
    [] c = "4" -> 4 [] c = "5" -> 5 [] c = "6" -> 6 [] c = "7" -> 7
    [] c = "8" -> 8 [] c = "9" -> 9

RECURSIVE lstrip(_)
lstrip(s) == IF s # << >> /\ Head(s) = " " THEN lstrip(Tail(s)) ELSE s

RECURSIVE rstrip(_)
rstrip(s) ==
  IF s # << >> /\ s[Len(s)] = " " THEN rstrip(SubSeq(s, 1, Len(s) - 1)) ELSE s

RECURSIVE DecimalValue(_)
DecimalValue(ds) ==
  IF ds = << >> THEN 0
  ELSE 10 * DecimalValue(SubSeq(ds, 1, Len(ds) - 1)) + DigitValue(ds[Len(ds)])

\* int(s) for a str s: surrounding whitespace is dropped, one sign is
\* allowed, then at least one decimal digit and nothing else; anything else
\* raises ValueError (ok = FALSE).  Underscore separators are not among the
\* inputs.
int_of_str(s) ==
  LET t      == rstrip(lstrip(s))
      signed == t # << >> /\ Head(t) \in { "+", "-" }
      body   == IF signed THEN Tail(t) ELSE t
      valid  == body # << >> /\ \A i \in 1..Len(body) : body[i] \in DigitChars
      mag    == IF valid THEN DecimalValue(body) ELSE 0
  IN  [ ok |-> valid,
        value |-> IF signed /\ Head(t) = "-" THEN 0 - mag ELSE mag ]

DefaultTopic == "buzz_topic"
DefaultInterval == 10

\* get_kafka_topic: os.getenv("KAFKA_TOPIC", "buzz_topic")
get_kafka_topic == getenv("KAFKA_TOPIC", DefaultTopic)

\* get_message_interval: int(os.getenv("MESSAGE_INTERVAL_SECONDS", 10)).
\* The default is already an int, which int() returns unchanged.
get_message_interval ==
  IF "MESSAGE_INTERVAL_SECONDS" \in DOMAIN environ
  THEN int_of_str(environ["MESSAGE_INTERVAL_SECONDS"])
  ELSE [ ok |-> TRUE, value |-> DefaultInterval ]

Bind(name, value) == (name :> value) @@ frame
Bound(name) == name \in DOMAIN frame

\* logger.<level>(text): one line, with the value formatted into it (or "").
Logged(level, text, arg) == Append(log, << level, text, arg >>)

-----------------------------------------------------------------------------
(* Initial state: the process has started and main() is about to run. *)

TopicDicts == { NoBindings } \cup { ("KAFKA_TOPIC" :> t) : t \in TopicInputs }
IntervalDicts ==
  { NoBindings } \cup { ("MESSAGE_INTERVAL_SECONDS" :> s) : s \in IntervalInputs }
EnvDicts == { t @@ i : t \in TopicDicts, i \in IntervalDicts }

Init ==
  /\ environ \in EnvDicts
  /\ frame = NoBindings
  /\ pc = "main_start"
  /\ exc = "none"
  /\ idx = 0
  /\ message = ""
  /\ sendCalls = << >>
  /\ closeCalls = 0
  /\ topicCalls = << >>
  /\ raised = << >>
  /\ clock = 0
  /\ waits = 0
  /\ log = << >>
  /\ steps = << >>
  /\ exitStatus = -1

-----------------------------------------------------------------------------
(* main() *)

\* sys.exit(n), or an exception nothing catches: the process ends.
Exit(status) ==
  /\ pc' = "exited"
  /\ exitStatus' = status

\* Exit status of the interpreter when an exception reaches the top level.
UncaughtStatus(e) == IF e = "KeyboardInterrupt" THEN 130 ELSE 1

\* Mutant of AfterStart: configuration is read first and the dependency
\* check is left out.
AfterStart_ConfigFirst == "main_get_kafka_topic"

\* The order in which main() makes its calls.
AfterStart == "main_verify_services"
AfterVerify == "main_get_kafka_topic"
AfterTopic == "main_get_message_interval"
AfterInterval == "main_create_kafka_producer"

\* lines 197-199: the two START log lines and load_dotenv(), which adds the
\* variables of the .env file that the environment does not set already.
main_load_dotenv ==
  /\ pc = "main_start"
  /\ \E dotenv \in EnvDicts : environ' = environ @@ dotenv
  /\ log' = Append(Logged("info", "START producer.", ""),
                   << "info", "Loading environment variables from .env file...", "" >>)
  /\ pc' = AfterStart
  /\ UNCHANGED << frame, exc, idx, message, sendCalls, closeCalls, topicCalls,
                  raised, clock, waits, steps, exitStatus >>

\* line 200: verify_services(); the collaborator ends the process itself
\* when a service is not reachable.
main_verify_services ==
  /\ pc = "main_verify_services"
  /\ steps' = Append(steps, "verify_services")
  /\ \E reachable \in BOOLEAN :
       IF reachable
       THEN /\ pc' = AfterVerify
            /\ UNCHANGED exitStatus
       ELSE \E st \in { 1, 2 } : Exit(st)
  /\ UNCHANGED << environ, frame, exc, idx, message, sendCalls, closeCalls,
                  topicCalls, raised, clock, waits, log >>

\* line 203 (and 34-38): topic = get_kafka_topic()
main_get_kafka_topic ==
  /\ pc = "main_get_kafka_topic"
  /\ steps' = Append(steps, "get_kafka_topic")
  /\ frame' = Bind("topic", get_kafka_topic)
  /\ log' = Logged("info", "Kafka topic", get_kafka_topic)
  /\ pc' = AfterTopic
  /\ UNCHANGED << environ, exc, idx, message, sendCalls, closeCalls,
                  topicCalls, raised, clock, waits, exitStatus >>

\* line 204 (and 41-45): interval_secs = get_message_interval(); a value
\* int() rejects raises ValueError, which nothing catches.
main_get_message_interval ==
  /\ pc = "main_get_message_interval"
  /\ steps' = Append(steps, "get_message_interval")
  /\ LET r == get_message_interval IN
       IF r.ok
       THEN /\ frame' = Bind("interval_secs", r.value)
            /\ log' = Logged("info", "Message interval", r.value)
            /\ pc' = AfterInterval
            /\ UNCHANGED exitStatus
       ELSE /\ Exit(UncaughtStatus("ValueError"))
            /\ UNCHANGED << frame, log >>
  /\ UNCHANGED << environ, exc, idx, message, sendCalls, closeCalls,
                  topicCalls, raised, clock, waits >>

\* Mutant of IsUsable: the handle is not tested.
IsUsable_Always(handle) == TRUE

\* line 208: "if not producer" is false for a producer object, true for None.
IsUsable(handle) == handle # "None"

\* lines 207-210: producer = create_kafka_producer(); a falsy handle ends
\* the process with status 3.
main_create_kafka_producer ==
  /\ pc = "main_create_kafka_producer"
  /\ steps' = Append(steps, "create_kafka_producer")
  /\ \E handle \in { "KafkaProducer", "None" } :
       /\ frame' = Bind("producer", handle)
       /\ IF IsUsable(handle)
          THEN /\ pc' = "main_create_kafka_topic"
               /\ UNCHANGED << log, exitStatus >>
          ELSE /\ log' = Logged("error", "Failed to create Kafka producer. Exiting...", "")
               /\ Exit(3)
  /\ UNCHANGED << environ, exc, idx, message, sendCalls, closeCalls,
                  topicCalls, raised, clock, waits >>

\* Mutant of TopicErrorHandler: the failure is logged and main() goes on.
TopicErrorHandler_NoExit ==
  /\ log' = Logged("error", "Failed to create or verify topic", frame["topic"])
  /\ pc' = "main_generate_messages"
  /\ UNCHANGED exitStatus

\* lines 216-218: the except clause around create_kafka_topic.
TopicErrorHandler ==
  /\ log' = Logged("error", "Failed to create or verify topic", frame["topic"])
  /\ Exit(1)

\* lines 213-218: create_kafka_topic(topic); any Exception it raises is
\* logged and ends the process with status 1.
main_create_kafka_topic ==
  /\ pc = "main_create_kafka_topic"
  /\ steps' = Append(steps, "create_kafka_topic")
  /\ \E outcome \in { "ok", "raised" } :
       /\ topicCalls' = Append(topicCalls, outcome)
       /\ IF outcome = "ok"
          THEN /\ log' = Logged("info", "Kafka topic is ready", frame["topic"])
               /\ pc' = "main_generate_messages"
               /\ UNCHANGED exitStatus
          ELSE TopicErrorHandler
  /\ UNCHANGED << environ, frame, exc, idx, message, sendCalls, closeCalls,
                  raised, clock, waits >>

\* lines 221-222: the log line and the call of generate_messages.
main_generate_messages ==
  /\ pc = "main_generate_messages"
  /\ steps' = Append(steps, "generate_messages")
  /\ log' = Logged("info", "Starting message production to topic", frame["topic"])
  /\ pc' = "gen_while"
  /\ UNCHANGED << environ, frame, exc, idx, message, sendCalls, closeCalls,
                  topicCalls, raised, clock, waits, exitStatus >>

\* line 224, then the interpreter exits normally.
main_end ==
  /\ pc = "main_end"
  /\ log' = Logged("info", "END producer.", "")
  /\ Exit(0)
  /\ UNCHANGED << environ, frame, exc, idx, message, sendCalls, closeCalls,
                  topicCalls, raised, clock, waits, steps >>

-----------------------------------------------------------------------------
(* generate_messages(producer, topic, interval_secs) *)

\* The statements inside the try block (lines 169-174).
TryBody ==
  { "gen_while", "gen_for", "gen_log_generated", "gen_send", "gen_log_sent",
    "gen_sleep" }

\* The exceptions the loop body can raise that derive from Exception.
ExceptionSubclasses == { "KafkaError", "ValueError" }

\* Mutant of HandlerFor: no "except Exception" clause.
HandlerFor_NoExceptionClause(e) ==
  IF e = "KeyboardInterrupt" THEN "gen_except_KeyboardInterrupt"
  ELSE "gen_finally"

\* Mutant of HandlerFor: no "except KeyboardInterrupt" clause.
HandlerFor_NoKeyboardInterruptClause(e) ==
  IF e \in ExceptionSubclasses THEN "gen_except_Exception"
  ELSE "gen_finally"

\* lines 175-179: the except clause that takes an exception raised in the
\* try block; one no clause matches goes to the finally block still raised.
HandlerFor(e) ==
  IF e = "KeyboardInterrupt" THEN "gen_except_KeyboardInterrupt"
  ELSE IF e \in ExceptionSubclasses THEN "gen_except_Exception"
  ELSE "gen_finally"

\* An exception leaves the try block at the current statement.
Raise(e) ==
  /\ exc' = e
  /\ raised' = Append(raised, [ exc |-> e, at |-> pc, sends |-> Len(sendCalls') ])
  /\ pc' = HandlerFor(e)

\* Mutant of ForHasNext: the pass stops one element early.
ForHasNext_DropsLast(i) == i < Len(string_list) - 1

\* line 170: what the for statement does with its iterator at position i:
\* bind the next element, or fall out of the for when the list is exhausted.
ForHasNext(i) == i < Len(string_list)
ForElement(i) == string_list[i + 1]

\* line 169: while True starts a new pass over the list.
FreshIterator == 0

\* line 172: the record of one producer.send(topic, value=message) call.
SendCall(ok) ==
  [ topic |-> frame["topic"], value |-> message, ok |-> ok,
    at |-> clock, waits |-> waits, closes |-> closeCalls ]

\* line 174: time.sleep(secs) raises ValueError for a negative length.
SleepRaises(secs) == secs < 0

\* Mutant of SleepDuration: the wait is cut short.
SleepDuration_Halved(secs) == secs \div 2

\* line 174: the time a completed time.sleep(secs) takes.
SleepDuration(secs) == secs

\* Mutants of ClosedOnce: close() is not called; close() is called twice.
ClosedOnce_Skipped(n) == n
ClosedOnce_Twice(n) == n + 2

\* line 180: producer.close() once.
ClosedOnce(n) == n + 1

gen_while ==
  /\ pc = "gen_while"
  /\ idx' = FreshIterator
  /\ pc' = "gen_for"
  /\ UNCHANGED << environ, frame, exc, message, sendCalls, closeCalls,
                  topicCalls, raised, clock, waits, log, steps, exitStatus >>

gen_for ==
  /\ pc = "gen_for"
  /\ IF ForHasNext(idx)
     THEN /\ message' = ForElement(idx)
          /\ idx' = idx + 1
          /\ pc' = "gen_log_generated"
     ELSE /\ pc' = "gen_while"
          /\ UNCHANGED << message, idx >>
  /\ UNCHANGED << environ, frame, exc, sendCalls, closeCalls, topicCalls,
                  raised, clock, waits, log, steps, exitStatus >>

\* line 171
gen_log_generated ==
  /\ pc = "gen_log_generated"
  /\ log' = Logged("info", "Generated buzz", message)
  /\ pc' = "gen_send"
  /\ UNCHANGED << environ, frame, exc, idx, message, sendCalls, closeCalls,
                  topicCalls, raised, clock, waits, steps, exitStatus >>

\* line 172: producer.send returns, or raises an error of the client.
gen_send ==
  /\ pc = "gen_send"
  /\ Len(sendCalls) < MaxSends
  /\ \E ok \in BOOLEAN :
       /\ sendCalls' = Append(sendCalls, SendCall(ok))
       /\ IF ok
          THEN /\ pc' = "gen_log_sent"
               /\ UNCHANGED << exc, raised >>
          ELSE Raise("KafkaError")
  /\ UNCHANGED << environ, frame, idx, message, closeCalls, topicCalls,
                  clock, waits, log, steps, exitStatus >>

\* line 173
gen_log_sent ==
  /\ pc = "gen_log_sent"
  /\ log' = Logged("info", "Sent message to topic", message)
  /\ pc' = "gen_sleep"
  /\ UNCHANGED << environ, frame, exc, idx, message, sendCalls, closeCalls,
                  topicCalls, raised, clock, waits, steps, exitStatus >>

\* line 174: time.sleep(interval_secs) runs to its end, or refuses a
\* negative length.
gen_sleep ==
  /\ pc = "gen_sleep"
  /\ UNCHANGED sendCalls
  /\ IF SleepRaises(frame["interval_secs"])
     THEN /\ Raise("ValueError")
          /\ UNCHANGED << clock, waits >>
     ELSE /\ clock' = clock + SleepDuration(frame["interval_secs"])
          /\ waits' = waits + 1
          /\ pc' = "gen_for"
          /\ UNCHANGED << exc, raised >>
  /\ UNCHANGED << environ, frame, idx, message, closeCalls, topicCalls, log,
                  steps, exitStatus >>

\* SIGINT between two statements of the try block: KeyboardInterrupt is
\* raised at the current position.  The signal is delivered while control
\* is inside the try block (lines 169-174); a signal outside it (during
\* startup, or a second one inside an except or finally clause) is not
\* among the inputs.
gen_interrupt ==
  /\ pc \in TryBody
  /\ UNCHANGED sendCalls
  /\ Raise("KeyboardInterrupt")
  /\ UNCHANGED << environ, frame, idx, message, closeCalls, topicCalls,
                  clock, waits, log, steps, exitStatus >>

\* SIGINT while producer.send is running: the call was made and is left by
\* KeyboardInterrupt.
gen_interrupt_in_send ==
  /\ pc = "gen_send"
  /\ Len(sendCalls) < MaxSends
  /\ sendCalls' = Append(sendCalls, SendCall(FALSE))
  /\ Raise("KeyboardInterrupt")
  /\ UNCHANGED << environ, frame, idx, message, closeCalls, topicCalls,
                  clock, waits, log, steps, exitStatus >>

\* SIGINT while time.sleep is waiting: part of the interval has elapsed.
gen_interrupt_in_sleep ==
  /\ pc = "gen_sleep"
  /\ ~SleepRaises(frame["interval_secs"])
  /\ \E elapsed \in 0..SleepDuration(frame["interval_secs"]) :
       clock' = clock + elapsed
  /\ UNCHANGED sendCalls
  /\ Raise("KeyboardInterrupt")
  /\ UNCHANGED << environ, frame, idx, message, closeCalls, topicCalls,
                  waits, log, steps, exitStatus >>

\* lines 175-176
gen_except_KeyboardInterrupt ==
  /\ pc = "gen_except_KeyboardInterrupt"
  /\ log' = Logged("warning", "Producer interrupted by user.", "")
  /\ exc' = "none"
  /\ pc' = "gen_finally"
  /\ UNCHANGED << environ, frame, idx, message, sendCalls, closeCalls,
                  topicCalls, raised, clock, waits, steps, exitStatus >>

\* lines 177-178
gen_except_Exception ==
  /\ pc = "gen_except_Exception"
  /\ log' = Logged("error", "Error in message generation", exc)
  /\ exc' = "none"
  /\ pc' = "gen_finally"
  /\ UNCHANGED << environ, frame, idx, message, sendCalls, closeCalls,
                  topicCalls, raised, clock, waits, steps, exitStatus >>

\* lines 179-181: close the producer and log it; then the function returns,
\* or an exception no clause took goes on to the top level.
gen_finally ==
  /\ pc = "gen_finally"
  /\ closeCalls' = ClosedOnce(closeCalls)
  /\ log' = Logged("info", "Kafka producer closed.", "")
  /\ IF exc = "none"
     THEN /\ pc' = "main_end"
          /\ UNCHANGED exitStatus
     ELSE Exit(UncaughtStatus(exc))
  /\ UNCHANGED << environ, frame, exc, idx, message, sendCalls, topicCalls,
                  raised, clock, waits, steps >>

-----------------------------------------------------------------------------

Next ==
  \/ main_load_dotenv
  \/ main_verify_services
  \/ main_get_kafka_topic
  \/ main_get_message_interval
  \/ main_create_kafka_producer
  \/ main_create_kafka_topic
  \/ main_generate_messages
  \/ main_end
  \/ gen_while
  \/ gen_for
  \/ gen_log_generated
  \/ gen_send
  \/ gen_log_sent
  \/ gen_sleep
  \/ gen_interrupt
  \/ gen_interrupt_in_send
  \/ gen_interrupt_in_sleep
  \/ gen_except_KeyboardInterrupt
  \/ gen_except_Exception
  \/ gen_finally

Spec == Init /\ [][Next]_vars

-----------------------------------------------------------------------------
(* Properties *)

Contains(seq, x) == \E i \in DOMAIN seq : seq[i] = x
HasLog(level, text) ==
  \E i \in DOMAIN log : log[i][1] = level /\ log[i][2] = text
IsPrefix(s, t) == Len(s) <= Len(t) /\ \A i \in DOMAIN s : s[i] = t[i]

LoopEntered == Contains(steps, "generate_messages")
LoopLeft == LoopEntered /\ pc \in { "main_end", "exited" }

\* C1: as long as nothing was raised in the loop (no interruption, no
\* failure), the k-th producer.send call, counting from 0, carries
\* string_list[k mod len(string_list)].
C1_CyclicOrder ==
  raised = << >> =>
    \A k \in 1..Len(sendCalls) :
      sendCalls[k].value = string_list[((k - 1) % Len(string_list)) + 1]

\* The send after the one of the last element carries the first element.
C1_Wraparound ==
  /\ raised = << >>
  /\ Len(sendCalls) = Len(string_list) + 1
  /\ sendCalls[Len(string_list)].value = string_list[Len(string_list)]
  /\ sendCalls[Len(string_list) + 1].value = string_list[1]

\* C2: producer.close() is never called twice, and once generate_messages
\* has been left, by an interruption or by a failure, it has been called
\* exactly once.
C2_CloseExactlyOnce ==
  /\ closeCalls <= 1
  /\ LoopLeft => closeCalls = 1

\* generate_messages was left through an interruption, with one close.
C2_ClosedAfterInterrupt ==
  /\ LoopLeft
  /\ raised # << >>
  /\ raised[1].exc = "KeyboardInterrupt"
  /\ closeCalls = 1

\* C3: when create_kafka_producer returned None, the process has ended
\* with status 3, create_kafka_topic was not called and nothing was sent.
C3_NoProducerExits3 ==
  (Bound("producer") /\ frame["producer"] = "None") =>
    /\ pc = "exited"
    /\ exitStatus = 3
    /\ topicCalls = << >>
    /\ ~Contains(steps, "create_kafka_topic")
    /\ sendCalls = << >>

C3_ProducerUnavailable ==
  /\ Bound("producer")
  /\ frame["producer"] = "None"
  /\ exitStatus = 3

\* C4: when create_kafka_topic raised after a producer handle was acquired,
\* the process has ended with status 1, generate_messages was not entered
\* and producer.send was never called.
C4_TopicFailureExits1 ==
  Contains(topicCalls, "raised") =>
    /\ frame["producer"] = "KafkaProducer"
    /\ pc = "exited"
    /\ exitStatus = 1
    /\ ~LoopEntered
    /\ sendCalls = << >>

C4_TopicFailed ==
  /\ Contains(topicCalls, "raised")
  /\ frame["producer"] = "KafkaProducer"
  /\ exitStatus = 1

\* C5: after a failure other than an interruption was raised in the loop (by
\* send or by the wait), no further send call is made, control never
\* returns to the loop, and once generate_messages is left the failure has
\* been logged, the producer closed once, the function returned normally and
\* the process ends with status 0 after its last log line.
C5_FailureAbandonsLoop ==
  \A i \in DOMAIN raised :
    raised[i].exc # "KeyboardInterrupt" =>
      /\ Len(sendCalls) = raised[i].sends
      /\ pc \notin TryBody
      /\ pc \in { "main_end", "exited" } =>
           /\ HasLog("error", "Error in message generation")
           /\ HasLog("info", "Kafka producer closed.")
           /\ closeCalls = 1
      /\ pc = "exited" =>
           /\ exitStatus = 0
           /\ log[Len(log)][2] = "END producer."

\* A send failed after earlier sends succeeded, and the process ended.
C5_SendFailedAndExited ==
  /\ pc = "exited"
  /\ raised # << >>
  /\ raised[1].exc = "KafkaError"
  /\ Len(sendCalls) > 1
  /\ exitStatus = 0

\* C6: a KeyboardInterrupt raised anywhere in the loop is taken by the
\* except clause of generate_messages and never goes further; no send call
\* follows it, and once generate_messages is left the interruption has been
\* logged, the producer closed once, and the process ends with status 0
\* after its last log line.
C6_InterruptCaught ==
  \A i \in DOMAIN raised :
    raised[i].exc = "KeyboardInterrupt" =>
      /\ Len(sendCalls) = raised[i].sends
      /\ pc \notin TryBody
      /\ exc = "KeyboardInterrupt" => pc = "gen_except_KeyboardInterrupt"
      /\ pc \in { "main_end", "exited" } =>
           /\ HasLog("warning", "Producer interrupted by user.")
           /\ HasLog("info", "Kafka producer closed.")
           /\ closeCalls = 1
      /\ pc = "exited" =>
           /\ exitStatus = 0
           /\ log[Len(log)][2] = "END producer."

\* The interruption arrived in the middle of a wait, and the process ended.
C6_InterruptedMidWait ==
  /\ pc = "exited"
  /\ raised # << >>
  /\ raised[1].exc = "KeyboardInterrupt"
  /\ raised[1].at = "gen_sleep"
  /\ frame["interval_secs"] > 1
  /\ clock % frame["interval_secs"] # 0
  /\ exitStatus = 0

\* C7: between two consecutive send calls exactly one wait completed, and
\* for a non-negative interval the clock advanced by at least the interval.
C7_OneWaitBetweenSends ==
  \A k \in 1..(Len(sendCalls) - 1) :
    /\ sendCalls[k + 1].waits = sendCalls[k].waits + 1
    /\ frame["interval_secs"] >= 0 =>
         sendCalls[k + 1].at - sendCalls[k].at >= frame["interval_secs"]

\* The wait between the last element and the first one of the next pass.
C7_WaitAcrossWraparound ==
  /\ Len(sendCalls) > Len(string_list)
  /\ frame["interval_secs"] > 0
  /\ sendCalls[Len(string_list) + 1].at - sendCalls[Len(string_list)].at
       = frame["interval_secs"]

\* The number the claim gives each call of main().
ClaimedStepNo(call) ==
  CASE call \in { "get_kafka_topic", "get_message_interval" } -> 1
    [] call = "verify_services" -> 2
    [] call = "create_kafka_producer" -> 3
    [] call = "create_kafka_topic" -> 4
    [] call = "generate_messages" -> 5

\* C8 as stated: main() starts its calls in the order configuration,
\* dependency verification, producer, topic, loop, and starts none before
\* every earlier step was done.
C8_ConfigBeforeVerify ==
  \A j \in DOMAIN steps :
    /\ \A i \in 1..(j - 1) : ClaimedStepNo(steps[i]) <= ClaimedStepNo(steps[j])
    /\ \A n \in 1..(ClaimedStepNo(steps[j]) - 1) :
         \E i \in 1..(j - 1) : ClaimedStepNo(steps[i]) = n

\* The order of the calls in main().
CodeOrder ==
  << "verify_services", "get_kafka_topic", "get_message_interval",
     "create_kafka_producer", "create_kafka_topic", "generate_messages" >>

\* C8 as amended: main() starts its calls in the order dependency
\* verification, configuration (topic, then interval), producer, topic,
\* loop, and starts none before every earlier one was done.
C8_VerifyBeforeConfig == IsPrefix(steps, CodeOrder)

C8_AllStepsStarted == steps = CodeOrder

\* C9 as stated: once resolved, the interval is non-negative, and it stays
\* the value that was resolved (the one logged by get_message_interval).
C9_IntervalNonNegative ==
  Bound("interval_secs") =>
    /\ frame["interval_secs"] >= 0
    /\ \A i \in DOMAIN log :
         log[i][2] = "Message interval" => log[i][3] = frame["interval_secs"]

\* C10: when the process has ended, producer.close() was called once if
\* generate_messages was entered and not at all otherwise (so not after a
\* topic failure, which leaves the acquired handle open), and no send call
\* was made after a close.
C10_CloseIffLoopEntered ==
  /\ pc = "exited" => closeCalls = (IF LoopEntered THEN 1 ELSE 0)
  /\ (pc = "exited" /\ Contains(topicCalls, "raised")) => closeCalls = 0
  /\ \A k \in DOMAIN sendCalls : sendCalls[k].closes = 0

C10_HandleLeftOpen ==
  /\ pc = "exited"
  /\ Contains(topicCalls, "raised")
  /\ frame["producer"] = "KafkaProducer"
  /\ closeCalls = 0
====
